---- MODULE Spec2Model ----
(***************************************************************************)
(* The SQLite long-term memory of Jarvis (src/Apps/jarv_memory.py) and the *)
(* memory injector that reads it (src/Apps/jarvis.py).                     *)
(*                                                                         *)
(* Text is a sequence of one-character strings, so that str.strip(),       *)
(* str.lower() and SQL LIKE are computed.  Python's None and "" are both   *)
(* falsy everywhere the code tests them ((x or ""), if kind:), so None is  *)
(* the empty text.                                                         *)
(***************************************************************************)
EXTENDS Integers, Sequences, FiniteSets, TLC

\* db: the database file; last: the last call of the memory API and its
\* outcome; cli: the jarvis process using the file, if one runs; procs: the
\* processes that call the memory API on the file side by side, each with
\* the call it is in.
VARIABLES db, last, cli, procs

vars == <<db, last, cli, procs>>

\* ---------------------------------------------------------------- bounds

\* Rows the conversations table may hold.
MaxRows == 2

\* ------------------------------------------------------------------ text

None == <<>>

S_user == <<"u","s","e","r">>
S_assistant == <<"a","s","s","i","s","t","a","n","t">>
S_system == <<"s","y","s","t","e","m">>
S_chat == <<"c","h","a","t">>
S_remembered == <<"r","e","m","e","m","b","e","r","e","d">>

UpperChars == <<"A","B","C","D","E","F","G","H","I","J","K","L","M",
                "N","O","P","Q","R","S","T","U","V","W","X","Y","Z">>

LowerChars == <<"a","b","c","d","e","f","g","h","i","j","k","l","m",
                "n","o","p","q","r","s","t","u","v","w","x","y","z">>

\* The lower-case letter of each upper-case one.
LowerOf ==
    [c \in {UpperChars[i] : i \in 1..Len(UpperChars)} |->
        LowerChars[CHOOSE i \in 1..Len(UpperChars) : UpperChars[i] = c]]

\* str.lower() on one character.
LowerChar(c) == IF c \in DOMAIN LowerOf THEN LowerOf[c] ELSE c

Lower(s) == [i \in 1..Len(s) |-> LowerChar(s[i])]

IsSpace(c) == c \in {" ", "\t", "\n", "\r"}

RECURSIVE LStrip(_)
LStrip(s) == IF s # <<>> /\ IsSpace(Head(s)) THEN LStrip(Tail(s)) ELSE s

RECURSIVE RStrip(_)
RStrip(s) ==
    IF s # <<>> /\ IsSpace(s[Len(s)]) THEN RStrip(SubSeq(s, 1, Len(s) - 1)) ELSE s

\* Mutant: the text is taken as given, blanks and all.
Strip_Not(s) == s

\* str.strip()
Strip(s) == RStrip(LStrip(s))

\* SQLite's LIKE: % matches any run of characters, _ matches exactly one,
\* every other character matches itself without regard to ASCII case.
RECURSIVE Like(_, _)
Like(s, p) ==
    IF p = <<>> THEN s = <<>>
    ELSE IF Head(p) = "%"
         THEN Like(s, Tail(p)) \/ (s # <<>> /\ Like(Tail(s), p))
         ELSE /\ s # <<>>
              /\ (Head(p) = "_" \/ LowerChar(Head(p)) = LowerChar(Head(s)))
              /\ Like(Tail(s), Tail(p))

\* f"%{q}%"
LikePattern(q) == <<"%">> \o q \o <<"%">>

\* ---------------------------------------------------------------- schema

SCHEMA_VERSION == 1

\* Columns of the table _init_database creates.
CurrentCols == {"id", "user_id", "role", "content", "kind", "deleted", "timestamp"}

Roles == {S_user, S_assistant, S_system}

Kinds == {S_chat, S_remembered}

\* SQL NULL in a text column: no text is this value.
Null == <<"NULL">>

\* The implicit rowid of a row; id INTEGER PRIMARY KEY is an alias of it.
RowId(r) == IF "id" \in DOMAIN r THEN r.id ELSE r.rowid

MaxOf(S) == IF S = {} THEN 0 ELSE CHOOSE m \in S : \A x \in S : x <= m

\* A database file that does not exist yet: no conversations table (no
\* columns), no meta table.
NoFile ==
    [cols |-> {}, conversations |-> {}, sqlite_sequence |-> 0,
     has_meta |-> FALSE, meta |-> {}]

Digits == <<"0","1","2","3","4","5","6","7","8","9">>

\* str(n) for n >= 0
RECURSIVE Str(_)
Str(n) == IF n < 10 THEN <<Digits[n + 1]>> ELSE Str(n \div 10) \o <<Digits[(n % 10) + 1]>>

\* INSERT OR IGNORE INTO meta(key, value) VALUES('schema_version', ?)
InsertOrIgnoreVersion(meta) ==
    IF \E m \in meta : m.key = "schema_version" THEN meta
    ELSE meta \cup {[key |-> "schema_version", value |-> Str(SCHEMA_VERSION)]}

\* UPDATE meta SET value=? WHERE key='schema_version'
UpdateVersion(meta) ==
    {IF m.key = "schema_version" THEN [m EXCEPT !.value = Str(SCHEMA_VERSION)] ELSE m
        : m \in meta}

\* Mutant: CREATE TABLE without IF NOT EXISTS raises on an existing table.
InitDatabase_NoIfNotExists(d) ==
    IF d.cols # {} THEN [db |-> d, err |-> "sqlite3.OperationalError"]
    ELSE [db |-> [d EXCEPT !.cols = CurrentCols, !.has_meta = TRUE,
                           !.meta = InsertOrIgnoreVersion(d.meta)],
          err |-> ""]

\* _init_database: CREATE TABLE IF NOT EXISTS leaves an existing table as it
\* is; each CREATE INDEX IF NOT EXISTS names columns of conversations and
\* fails when the table has no such column; then the meta table and
\* INSERT OR IGNORE of schema_version.
InitDatabase(d) ==
    LET cols == IF d.cols = {} THEN CurrentCols ELSE d.cols
        d1 == [d EXCEPT !.cols = cols]
    IN  IF ~({"user_id", "id"} \subseteq cols)
            \/ ~({"user_id", "deleted"} \subseteq cols)
            \/ ~({"content"} \subseteq cols)
        THEN [db |-> d1, err |-> "sqlite3.OperationalError"]
        ELSE [db |-> [d1 EXCEPT !.has_meta = TRUE, !.meta = InsertOrIgnoreVersion(d.meta)],
              err |-> ""]

\* A row after ALTER TABLE conversations ADD COLUMN role TEXT / content TEXT
\* / kind TEXT DEFAULT 'chat' / deleted INTEGER DEFAULT 0 for the columns
\* added: each takes its default, NULL when it has none.
AlterRow(r, added) ==
    [c \in (DOMAIN r) \cup added |->
        IF c \in DOMAIN r THEN r[c]
        ELSE IF c = "kind" THEN S_chat
        ELSE IF c = "deleted" THEN 0
        ELSE Null]

\* Mutant: the context is compared as it is written.
LegacyContext_AsWritten(r) == IF r.context = Null THEN <<>> ELSE r.context

\* lower(COALESCE(context, ''))
LegacyContext(r) == IF r.context = Null THEN <<>> ELSE Lower(r.context)

MemoryLike == {S_remembered, <<"m","e","m","o","r","y">>, <<"n","o","t","e">>}

\* The three UPDATE statements that populate the new columns of one row.
MigrateRow(r) ==
    LET r1 == IF r.content = Null THEN [r EXCEPT !.content = r.message] ELSE r
        r2 == IF r1.role = Null
              THEN [r1 EXCEPT !.role = IF LegacyContext(r1) \in Roles
                                       THEN LegacyContext(r1)
                                       ELSE S_user]
              ELSE r1
    IN  [r2 EXCEPT !.kind = IF LegacyContext(r2) \in MemoryLike THEN S_remembered
                            ELSE IF r2.kind = Null THEN S_chat ELSE r2.kind]

\* The ALTER TABLE ... ADD COLUMN statements the migration runs, in the
\* order it runs them: one per column the table lacks.
AlterColumns(cols) ==
    LET all == <<"role", "content", "kind", "deleted">>
        F[i \in 0..Len(all)] ==
            IF i = 0 THEN <<>>
            ELSE IF all[i] \in cols THEN F[i - 1] ELSE Append(F[i - 1], all[i])
    IN  F[Len(all)]

\* The table after the first n of those statements. sqlite3 opens no
\* transaction for a schema statement, so each is committed as it runs.
Altered(d, n) ==
    LET added == {AlterColumns(d.cols)[i] : i \in 1..n}
    IN  [d EXCEPT !.cols = @ \cup added,
                  !.conversations = {AlterRow(r, added) : r \in @}]

\* The table is in the old layout as the migration detects it.
IsLegacy(d) ==
    /\ d.cols # {}
    /\ ~("content" \in d.cols /\ "role" \in d.cols)
    /\ "message" \in d.cols /\ "context" \in d.cols

\* _attempt_migrate_legacy_schema: [db, err]. The UPDATE statements run in
\* one transaction, committed by conn.commit(); UPDATE meta raises when there
\* is no meta table, and the transaction is rolled back.
AttemptMigrateLegacySchema(d) ==
    IF ~IsLegacy(d) THEN [db |-> d, err |-> ""]
    ELSE LET d1 == Altered(d, Len(AlterColumns(d.cols)))
         IN  IF ~d.has_meta
             THEN [db |-> d1, err |-> "sqlite3.OperationalError"]
             ELSE [db |-> [d1 EXCEPT !.conversations = {MigrateRow(r) : r \in @},
                                     !.meta = UpdateVersion(@)],
                   err |-> ""]

\* JarvisMemory.__init__: _init_database, then _attempt_migrate_legacy_schema
\* unless _init_database raised.
Construct(d) ==
    LET i == InitDatabase(d)
    IN  IF i.err # "" THEN i ELSE AttemptMigrateLegacySchema(i.db)

\* --------------------------------------------------------------- results

\* What a call gave back: the database after it, the value returned and
\* the exception raised ("" when none).
Returned(d, v) == [db |-> d, ret |-> v, err |-> ""]

Raised(d, e) == [db |-> d, ret |-> 0, err |-> e]

\* ------------------------------------------------------------ Public API

\* Mutant: ids are counted from the live rows.
NextRowId_Count(d) == Cardinality({r \in d.conversations : r.deleted = 0}) + 1

\* AUTOINCREMENT: one more than the largest rowid the table ever held.
NextRowId(d) == MaxOf({d.sqlite_sequence} \cup {RowId(r) : r \in d.conversations}) + 1

\* INSERT INTO conversations (user_id, role, content, kind, deleted)
\* VALUES (?, ?, ?, ?, 0): the other columns take their defaults.
InsertedRow(d, user_id, role, content, kind, now) ==
    [c \in d.cols \cup (IF "id" \in d.cols THEN {} ELSE {"rowid"}) |->
        CASE c \in {"id", "rowid"} -> NextRowId(d)
          [] c = "user_id" -> user_id
          [] c = "role" -> role
          [] c = "content" -> content
          [] c = "kind" -> kind
          [] c = "deleted" -> 0
          [] c = "timestamp" -> now
          [] OTHER -> Null]

\* Mutant: the kind is not validated.
store_message_AnyKind(d, user_id, role, content, kind, now) ==
    LET r == Lower(Strip(role))
        k == Lower(Strip(IF kind = None THEN S_chat ELSE kind))
        c == Strip(content)
    IN  IF r \notin Roles
        THEN Raised(d, "ValueError: role must be one of: user, assistant, system")
        ELSE IF c = <<>>
        THEN Raised(d, "ValueError: content cannot be empty")
        ELSE Returned([d EXCEPT !.conversations =
                                    @ \cup {InsertedRow(d, user_id, r, c, k, now)},
                                !.sqlite_sequence = NextRowId(d)],
                      NextRowId(d))

\* store_message; now is the value of CURRENT_TIMESTAMP.
store_message(d, user_id, role, content, kind, now) ==
    LET r == Lower(Strip(role))
        k == Lower(Strip(IF kind = None THEN S_chat ELSE kind))
        c == Strip(content)
    IN  IF r \notin Roles
        THEN Raised(d, "ValueError: role must be one of: user, assistant, system")
        ELSE IF k \notin Kinds
        THEN Raised(d, "ValueError: kind must be one of: chat, remembered")
        ELSE IF c = <<>>
        THEN Raised(d, "ValueError: content cannot be empty")
        ELSE IF ~({"user_id", "role", "content", "kind", "deleted"} \subseteq d.cols)
        THEN Raised(d, "sqlite3.OperationalError")
        ELSE Returned([d EXCEPT !.conversations =
                                    @ \cup {InsertedRow(d, user_id, r, c, k, now)},
                                !.sqlite_sequence = NextRowId(d)],
                      NextRowId(d))

\* remember
remember(d, user_id, content, now) ==
    store_message(d, user_id, S_user, content, S_remembered, now)

\* --------------------------------------------------------------- queries

S_None == <<"N","o","n","e">>

\* str(r[...]) of a text column: str(None) is "None".
PyStr(v) == IF v = Null THEN S_None ELSE v

\* MemoryRow(id=int(r["id"]), user_id=str(...), ...)
MemoryRow(r) ==
    [id |-> r.id, user_id |-> PyStr(r.user_id), role |-> PyStr(r.role),
     content |-> PyStr(r.content), kind |-> PyStr(r.kind), deleted |-> r.deleted,
     timestamp |-> PyStr(r.timestamp)]

\* Mutant: ORDER BY id ASC.
RECURSIVE OrderByIdAsc(_)
OrderByIdAsc(S) ==
    IF S = {} THEN <<>>
    ELSE LET m == CHOOSE r \in S : \A x \in S : x.id >= r.id
         IN  <<m>> \o OrderByIdAsc(S \ {m})

\* ORDER BY id DESC
RECURSIVE OrderByIdDesc(_)
OrderByIdDesc(S) ==
    IF S = {} THEN <<>>
    ELSE LET m == CHOOSE r \in S : \A x \in S : x.id <= r.id
         IN  <<m>> \o OrderByIdDesc(S \ {m})

\* LIMIT ?
Limit(rows, n) == SubSeq(rows, 1, IF n < Len(rows) THEN n ELSE Len(rows))

\* Mutant: the limit is passed on as given.
EffectiveLimit_Raw(limit) == limit

\* max(1, int(limit))
EffectiveLimit(limit) == IF limit < 1 THEN 1 ELSE limit

\* The columns the SELECT of get_recent and search names.
SelectCols == {"id", "user_id", "role", "content", "kind", "deleted", "timestamp"}

\* Mutant: the WHERE clause lacks user_id = ?.
RecentWhere_AnyUser(r, user_id, include_deleted, k) ==
    /\ (include_deleted \/ r.deleted = 0)
    /\ (k = None \/ r.kind = k)

\* WHERE user_id = ? [AND deleted = 0] [AND kind = ?]; k is the kind the
\* query is given, None when it has no kind clause.
RecentWhere(r, user_id, include_deleted, k) ==
    /\ r.user_id = user_id
    /\ (include_deleted \/ r.deleted = 0)
    /\ (k = None \/ r.kind = k)

\* kind.strip().lower() of a kind that is given
KindParam(kind) == IF kind = None THEN None ELSE Lower(Strip(kind))

\* The rows of a cursor as MemoryRow objects.
MemoryRows(rows) == [i \in 1..Len(rows) |-> MemoryRow(rows[i])]

\* get_recent: [rows, err]
get_recent(d, user_id, limit, include_deleted, kind) ==
    LET k == KindParam(kind)
    IN  IF kind # None /\ k \notin Kinds
        THEN [rows |-> <<>>, err |-> "ValueError: kind must be one of: chat, remembered"]
        ELSE IF ~(SelectCols \subseteq d.cols)
        THEN [rows |-> <<>>, err |-> "sqlite3.OperationalError"]
        ELSE [rows |-> MemoryRows(Limit(OrderByIdDesc(
                          {r \in d.conversations :
                              RecentWhere(r, user_id, include_deleted, k)}),
                          EffectiveLimit(limit))),
              err |-> ""]

\* Mutant: the WHERE clause never carries deleted = 0.
SearchWhere_WithDeleted(r, user_id, q, include_deleted, k) ==
    /\ r.user_id = user_id
    /\ r.content # Null
    /\ Like(r.content, LikePattern(q))
    /\ (k = None \/ r.kind = k)

\* WHERE user_id = ? AND content LIKE ? [AND deleted = 0] [AND kind = ?]
SearchWhere(r, user_id, q, include_deleted, k) ==
    /\ r.user_id = user_id
    /\ r.content # Null
    /\ Like(r.content, LikePattern(q))
    /\ (include_deleted \/ r.deleted = 0)
    /\ (k = None \/ r.kind = k)

\* Mutant: the query goes into the pattern with its surrounding blanks.
search_RawQuery(d, user_id, query, limit, include_deleted, kind) ==
    LET k == KindParam(kind)
    IN  IF Strip(query) = <<>> THEN [rows |-> <<>>, err |-> ""]
        ELSE IF kind # None /\ k \notin Kinds
        THEN [rows |-> <<>>, err |-> "ValueError: kind must be one of: chat, remembered"]
        ELSE IF ~(SelectCols \subseteq d.cols)
        THEN [rows |-> <<>>, err |-> "sqlite3.OperationalError"]
        ELSE [rows |-> MemoryRows(Limit(OrderByIdDesc(
                          {r \in d.conversations :
                              SearchWhere(r, user_id, query, include_deleted, k)}),
                          EffectiveLimit(limit))),
              err |-> ""]

\* search: [rows, err]
search(d, user_id, query, limit, include_deleted, kind) ==
    LET q == Strip(query)
        k == KindParam(kind)
    IN  IF q = <<>> THEN [rows |-> <<>>, err |-> ""]
        ELSE IF kind # None /\ k \notin Kinds
        THEN [rows |-> <<>>, err |-> "ValueError: kind must be one of: chat, remembered"]
        ELSE IF ~(SelectCols \subseteq d.cols)
        THEN [rows |-> <<>>, err |-> "sqlite3.OperationalError"]
        ELSE [rows |-> MemoryRows(Limit(OrderByIdDesc(
                          {r \in d.conversations :
                              SearchWhere(r, user_id, q, include_deleted, k)}),
                          EffectiveLimit(limit))),
              err |-> ""]

\* --------------------------------------------------------------- forgets

\* Mutant: the UPDATE also blanks the content of the rows it hides.
SoftDelete_Redact(d, hits) ==
    Returned([d EXCEPT !.conversations =
                 {IF r \in hits THEN [r EXCEPT !.deleted = 1, !.content = <<>>] ELSE r
                     : r \in d.conversations}],
             Cardinality(hits))

\* Mutant: the UPDATE has no WHERE clause and sets deleted to whether the
\* row is selected.
SoftDelete_Only(d, hits) ==
    Returned([d EXCEPT !.conversations =
                 {[r EXCEPT !.deleted = IF r \in hits THEN 1 ELSE 0] : r \in d.conversations}],
             Cardinality(hits))

\* UPDATE conversations SET deleted = 1 WHERE ...: hits are the rows the
\* WHERE clause selects; the table after it and cur.rowcount.
SoftDelete(d, hits) ==
    Returned([d EXCEPT !.conversations =
                 {IF r \in hits THEN [r EXCEPT !.deleted = 1] ELSE r : r \in d.conversations}],
             Cardinality(hits))

\* Mutant: the content is compared with the keyword as a whole.
ForgetKeywordWhere_Exact(r, user_id, kw) ==
    /\ r.user_id = user_id
    /\ r.deleted = 0
    /\ r.content = kw

\* WHERE user_id = ? AND deleted = 0 AND content LIKE ?
ForgetKeywordWhere(r, user_id, kw) ==
    /\ r.user_id = user_id
    /\ r.deleted = 0
    /\ r.content # Null
    /\ Like(r.content, LikePattern(kw))

\* Mutant: the keyword goes into the pattern even when nothing is left of it.
forget_keyword_AnyKeyword(d, user_id, keyword) ==
    IF ~({"user_id", "deleted", "content"} \subseteq d.cols)
    THEN Raised(d, "sqlite3.OperationalError")
    ELSE SoftDelete(d, {r \in d.conversations :
                            ForgetKeywordWhere(r, user_id, Strip(keyword))})

\* forget_keyword
forget_keyword(d, user_id, keyword) ==
    IF Strip(keyword) = <<>> THEN Returned(d, 0)
    ELSE IF ~({"user_id", "deleted", "content"} \subseteq d.cols)
    THEN Raised(d, "sqlite3.OperationalError")
    ELSE SoftDelete(d, {r \in d.conversations :
                            ForgetKeywordWhere(r, user_id, Strip(keyword))})

\* Mutant: the WHERE clause lacks user_id = ?.
ForgetIdWhere_AnyUser(r, user_id, row_id) == r.id = row_id /\ r.deleted = 0

\* Mutant: the WHERE clause lacks deleted = 0.
ForgetIdWhere_Deleted(r, user_id, row_id) == r.user_id = user_id /\ r.id = row_id

\* WHERE user_id = ? AND id = ? AND deleted = 0
ForgetIdWhere(r, user_id, row_id) ==
    r.user_id = user_id /\ r.id = row_id /\ r.deleted = 0

\* forget_id
forget_id(d, user_id, row_id) ==
    IF ~({"user_id", "id", "deleted"} \subseteq d.cols)
    THEN Raised(d, "sqlite3.OperationalError")
    ELSE SoftDelete(d, {r \in d.conversations : ForgetIdWhere(r, user_id, row_id)})

\* Mutant: only the chat transcript is cleared.
ClearUserWhere_Chat(r, user_id) == r.user_id = user_id /\ r.deleted = 0 /\ r.kind = S_chat

\* WHERE user_id = ? AND deleted = 0
ClearUserWhere(r, user_id) == r.user_id = user_id /\ r.deleted = 0

\* clear_user
clear_user(d, user_id) ==
    IF ~({"user_id", "deleted"} \subseteq d.cols)
    THEN Raised(d, "sqlite3.OperationalError")
    ELSE SoftDelete(d, {r \in d.conversations : ClearUserWhere(r, user_id)})

\* Mutant: the maintenance also drops the soft-deleted rows.
vacuum_Purge(d) ==
    Returned([d EXCEPT !.conversations = {r \in @ : r.deleted = 0}], 0)

\* vacuum: VACUUM rebuilds the file; a table with an INTEGER PRIMARY KEY
\* keeps its rows and their ids.
vacuum(d) == Returned(d, 0)

\* ------------------------------------------------------- memory injector

\* memory is None: the store is disabled.
NoMemory == [none |-> TRUE]

\* The upper-case letter of each lower-case one.
UpperOf ==
    [c \in {LowerChars[i] : i \in 1..Len(LowerChars)} |->
        UpperChars[CHOOSE i \in 1..Len(LowerChars) : LowerChars[i] = c]]

\* str.upper() on one character.
UpperChar(c) == IF c \in DOMAIN UpperOf THEN UpperOf[c] ELSE c

Upper(s) == [i \in 1..Len(s) |-> UpperChar(s[i])]

\* rows.sort(key=lambda r: r.id): a stable insertion into ascending id order.
RECURSIVE SortById(_)
SortById(rows) ==
    IF rows = <<>> THEN <<>>
    ELSE LET rest == SortById(SubSeq(rows, 1, Len(rows) - 1))
             x == rows[Len(rows)]
             n == Cardinality({i \in 1..Len(rest) : rest[i].id <= x.id})
         IN  SubSeq(rest, 1, n) \o <<x>> \o SubSeq(rest, n + 1, Len(rest))

\* Mutant: rows[:n], the oldest rows are kept.
Tail_Oldest(rows, n) == IF n >= Len(rows) THEN rows ELSE SubSeq(rows, 1, n)

\* rows[-n:] for n >= 1
Tail_(rows, n) == IF n >= Len(rows) THEN rows ELSE SubSeq(rows, Len(rows) - n + 1, Len(rows))

\* Mutant: the two streams are cut without being sorted.
MergeStreams_Unsorted(chat, rem, mem_inject) == Tail_(chat \o rem, mem_inject)

\* rows.sort(key=lambda r: r.id); rows = rows[-mem_inject:] on the two
\* streams, the chat rows first.
MergeStreams(chat, rem, mem_inject) == Tail_(SortById(chat \o rem), mem_inject)

\* The rows build_memory_block renders: both streams, sorted by id, the
\* last mem_inject of them.
build_memory_rows(memory, mem_user, mem_inject, include_chat, include_remembered) ==
    IF memory = NoMemory \/ mem_inject <= 0 THEN <<>>
    ELSE LET chat == IF include_chat
                     THEN get_recent(memory, mem_user, mem_inject, FALSE, S_chat).rows
                     ELSE <<>>
             rem == IF include_remembered
                    THEN get_recent(memory, mem_user, mem_inject, FALSE, S_remembered).rows
                    ELSE <<>>
         IN  MergeStreams(chat, rem, mem_inject)

\* The exception build_memory_block lets through: the one of the first
\* get_recent that raises, "" when none does.
build_memory_block_raises(memory, mem_user, mem_inject, include_chat, include_remembered) ==
    IF memory = NoMemory \/ mem_inject <= 0 THEN ""
    ELSE LET chat == IF include_chat
                     THEN get_recent(memory, mem_user, mem_inject, FALSE, S_chat).err
                     ELSE ""
             rem == IF include_remembered
                    THEN get_recent(memory, mem_user, mem_inject, FALSE, S_remembered).err
                    ELSE ""
         IN  IF chat # "" THEN chat ELSE rem

\* "Long-term memory (SQLite). Use this for continuity:"
MemoryHeader ==
    <<"L","o","n","g","-","t","e","r","m"," ","m","e","m","o","r","y"," ",
      "(","S","Q","L","i","t","e",")","."," ","U","s","e"," ","t","h","i",
      "s"," ","f","o","r"," ","c","o","n","t","i","n","u","i","t","y",":">>

\* f"- {role} ({kind}): {r.content}"
MemoryLine(r) ==
    <<"-", " ">> \o Upper(r.role) \o <<" ", "(">>
        \o (IF r.kind = <<>> THEN S_chat ELSE r.kind) \o <<")", ":", " ">> \o r.content

\* "\n".join(lines)
RECURSIVE JoinLines(_)
JoinLines(lines) ==
    IF lines = <<>> THEN <<>>
    ELSE IF Len(lines) = 1 THEN lines[1]
    ELSE lines[1] \o <<"\n">> \o JoinLines(Tail(lines))

\* build_memory_block: the text of the block.
build_memory_block(memory, mem_user, mem_inject, include_chat, include_remembered) ==
    LET rows == build_memory_rows(memory, mem_user, mem_inject,
                                  include_chat, include_remembered)
    IN  IF rows = <<>> THEN <<>>
        ELSE Strip(JoinLines(<<MemoryHeader>> \o [i \in 1..Len(rows) |-> MemoryLine(rows[i])]))

\* ---------------------------------------------------------------- inputs

JD == <<"J","D">>

Users == {JD, <<"b","o","b">>}

\* Namespaces a caller may name: the users, and one that differs from JD in
\* case only.
Namespaces == Users \cup {<<"j","d">>}

RoleInputs ==
    {S_user, S_system, <<" ","A","s","s","i","s","t","a","n","t">>,
     <<"u","n","k","n","o","w","n">>, None}

KindInputs ==
    {S_chat, <<"R","e","m","e","m","b","e","r","e","d"," ">>, <<"n","o","t","e">>, None}

ContentInputs == {<<" ","a","b"," ">>, <<"a","_">>, <<>>, <<" ","\t">>}

Timestamps == {<<"t","1">>}

Patterns ==
    {<<"a">>, <<"A">>, <<"b">>, <<"_">>, <<"%">>, <<"a","_">>, <<"a","b">>,
     <<" ","b"," ">>, <<"c">>, <<>>, <<" ">>}

KindFilters ==
    {None, S_chat, <<" ","R","e","m","e","m","b","e","r","e","d">>, <<"n","o","t","e">>}

\* The calls of store_message the store is driven with: <<role, kind, content>>.
StoreCalls ==
    {<<S_user, S_chat, <<" ","a","b"," ">>>>,
     <<<<" ","A","s","s","i","s","t","a","n","t">>, None, <<"a","_">>>>,
     <<S_user, <<"R","e","m","e","m","b","e","r","e","d"," ">>, <<" ","a","b"," ">>>>,
     <<<<"u","n","k","n","o","w","n">>, S_chat, <<" ","a","b"," ">>>>,
     <<S_user, <<"n","o","t","e">>, <<"a","_">>>>,
     <<S_system, S_remembered, <<" ","\t">>>>}

\* The contents remember is driven with.
RememberCalls == {<<" ","a","b"," ">>, <<>>}

\* The keywords forget_keyword is driven with.
ForgetCalls == {<<"a">>, <<"_">>, <<" ","b"," ">>, <<"c">>, <<" ">>}

\* --------------------------------------------------------------- actions

\* The last call of the API: which, what it returned, what it raised.
Called(op, out) == [op |-> op, ret |-> out.ret, err |-> out.err]

\* No jarvis process runs.
NotRunning ==
    [pc |-> "none",
     args |-> [chat |-> FALSE, mem |-> FALSE, mem_inject |-> 0, mem_remembered_only |-> FALSE],
     memory |-> FALSE, memory_block |-> <<>>, prompt |-> <<>>]

\* The processes that share the file.
Procs == {1, 2}

\* A process that is in no call of the memory API: call is the call it is
\* in, out what its statement gave and has not committed yet, rows the
\* chat rows build_memory_block has fetched and, once it has returned, the
\* rows it rendered, seen the rows a build_memory_block would render in
\* each state the file had since it began.
Idle == [pc |-> "idle", call |-> <<>>, out |-> [db |-> NoFile, ret |-> 0, err |-> ""],
         rows |-> <<>>, seen |-> {}]

NoProcs == [p \in Procs |-> Idle]

Init ==
    /\ db = Construct(NoFile).db
    /\ last = [op |-> "__init__", ret |-> 0, err |-> ""]
    /\ cli = NotRunning
    /\ procs = NoProcs

StoreMessage ==
    /\ Cardinality(db.conversations) < MaxRows
    /\ \E u \in Users, c \in StoreCalls, now \in Timestamps :
          LET out == store_message(db, u, c[1], c[3], c[2], now)
          IN  db' = out.db /\ last' = Called("store_message", out) /\ UNCHANGED <<cli, procs>>

Remember ==
    /\ Cardinality(db.conversations) < MaxRows
    /\ \E u \in Users, c \in RememberCalls, now \in Timestamps :
          LET out == remember(db, u, c, now)
          IN  db' = out.db /\ last' = Called("remember", out) /\ UNCHANGED <<cli, procs>>

ForgetKeyword ==
    \E u \in Users, kw \in ForgetCalls :
        LET out == forget_keyword(db, u, kw)
        IN  db' = out.db /\ last' = Called("forget_keyword", out) /\ UNCHANGED <<cli, procs>>

ForgetId ==
    \E u \in Users, i \in 0..(MaxRows + 1) :
        LET out == forget_id(db, u, i)
        IN  db' = out.db /\ last' = Called("forget_id", out) /\ UNCHANGED <<cli, procs>>

ClearUser ==
    \E u \in Users :
        LET out == clear_user(db, u)
        IN  db' = out.db /\ last' = Called("clear_user", out) /\ UNCHANGED <<cli, procs>>

Vacuum ==
    LET out == vacuum(db)
    IN  db' = out.db /\ last' = Called("vacuum", out) /\ UNCHANGED <<cli, procs>>

\* A later process start on the same file: JarvisMemory(db_path) again.
Reinit ==
    LET out == Construct(db)
    IN  db' = out.db /\ last' = [op |-> "__init__", ret |-> 0, err |-> out.err]
        /\ UNCHANGED <<cli, procs>>

Next ==
    \/ StoreMessage
    \/ Remember
    \/ ForgetKeyword
    \/ ForgetId
    \/ ClearUser
    \/ Vacuum
    \/ Reinit

Spec == Init /\ [][Next]_vars

\* ------------------------------------------------- one user's conversation

\* Turns of the conversation.
MaxTurns == 6

\* A chat turn or a remembered item of JD; the roles alternate, user first.
StoreTurn ==
    /\ Cardinality(db.conversations) < MaxTurns
    /\ \E k \in Kinds, now \in Timestamps :
          LET role == IF NextRowId(db) % 2 = 1 THEN S_user ELSE S_assistant
              out == store_message(db, JD, role, <<"a","b">>, k, now)
          IN  db' = out.db /\ last' = Called("store_message", out) /\ UNCHANGED <<cli, procs>>

ForgetTurn ==
    \E i \in 1..MaxTurns :
        LET out == forget_id(db, JD, i)
        IN  db' = out.db /\ last' = Called("forget_id", out) /\ UNCHANGED <<cli, procs>>

NextChat ==
    \/ StoreTurn
    \/ ForgetTurn

SpecChat == Init /\ [][NextChat]_vars

\* ------------------------------------------------------- the jarvis process

\* Records the store may hold while a jarvis process is followed.
MaxStored == 4

\* --mem-inject: a small block, and the default.
InjectArgs == {1, 20}

\* What the user types as a chat line or as the one-shot question.
UserLines == {<<"h", "i">>}

\* What the model answers.
Answers == {<<"o", "k">>}

\* What follows "remember this:" and "forget that:".
RememberThis == {<<"a", "b">>}

ForgetThat == {<<"a">>}

\* Mutant: the process runs without memory.
MemoryOf_Off(c, d) == NoMemory

\* The memory object of the process: the store, or None when memory is off
\* or its construction failed.
MemoryOf(c, d) == IF c.memory THEN d ELSE NoMemory

\* run_one: the memory block it builds for the prompt, with the defaults of
\* build_memory_block (include_chat=True, include_remembered=True).
run_one_memory_block(memory, mem_user, mem_inject) ==
    build_memory_block(memory, mem_user, mem_inject, TRUE, TRUE)

\* main: the arguments are parsed and, with --mem, the store is constructed;
\* a failure of the construction is reported and memory is None.
Main ==
    /\ cli.pc \in {"none", "terminated"}
    /\ UNCHANGED procs
    /\ \E chat \in BOOLEAN, mem \in BOOLEAN, only \in BOOLEAN, n \in InjectArgs :
          LET c == Construct(db)
          IN  /\ db' = IF mem THEN c.db ELSE db
              /\ last' = IF mem THEN [op |-> "__init__", ret |-> 0, err |-> c.err] ELSE last
              /\ cli' = [pc |-> IF chat THEN "input" ELSE "oneshot",
                         args |-> [chat |-> chat, mem |-> mem, mem_inject |-> n,
                                   mem_remembered_only |-> only],
                         memory |-> mem /\ c.err = "",
                         memory_block |-> <<>>, prompt |-> <<>>]

\* A chat line of the REPL, or the one-shot question, up to the request to
\* the model: the user turn is stored (an exception is reported or passed
\* over), the REPL builds its memory block from --mem-remembered-only, and
\* run_one builds the block of the prompt and sends the prompt. No handler
\* is around either build_memory_block: an exception of it leaves main.
Ask ==
    /\ cli.pc \in {"input", "oneshot"}
    /\ UNCHANGED procs
    /\ Cardinality(db.conversations) + 2 <= MaxStored
    /\ \E text \in UserLines, now \in Timestamps :
          LET out == store_message(db, JD, S_user, text, S_chat, now)
              d1 == IF cli.memory THEN out.db ELSE db
              memory == MemoryOf(cli, d1)
              raises ==
                  IF cli.args.chat
                        /\ build_memory_block_raises(memory, JD, cli.args.mem_inject,
                                                     ~cli.args.mem_remembered_only, TRUE) # ""
                  THEN TRUE
                  ELSE build_memory_block_raises(memory, JD, cli.args.mem_inject,
                                                 TRUE, TRUE) # ""
          IN  /\ db' = d1
              /\ last' = IF cli.memory THEN Called("store_message", out) ELSE last
              /\ cli' = [cli EXCEPT
                            !.pc = IF raises THEN "terminated" ELSE "waiting",
                            !.memory_block =
                                IF cli.args.chat
                                THEN build_memory_block(memory, JD, cli.args.mem_inject,
                                                        ~cli.args.mem_remembered_only, TRUE)
                                ELSE @,
                            !.prompt = run_one_memory_block(memory, JD, cli.args.mem_inject)]

\* The model answers: the assistant turn is stored; the REPL reads the next
\* line, the one-shot process ends.
Answer ==
    /\ cli.pc = "waiting"
    /\ UNCHANGED procs
    /\ \E answer \in Answers, now \in Timestamps :
          LET out == store_message(db, JD, S_assistant, answer, S_chat, now)
          IN  /\ db' = IF cli.memory THEN out.db ELSE db
              /\ last' = IF cli.memory THEN Called("store_message", out) ELSE last
              /\ cli' = IF cli.args.chat THEN [cli EXCEPT !.pc = "input"] ELSE NotRunning

\* requests.RequestException: the REPL reports it and reads the next line,
\* the one-shot process returns 2; no assistant turn is stored.
RequestFails ==
    /\ cli.pc = "waiting"
    /\ cli' = IF cli.args.chat THEN [cli EXCEPT !.pc = "input"] ELSE NotRunning
    /\ UNCHANGED <<db, last, procs>>

\* "remember this: ..." in the REPL.
ReplRemember ==
    /\ cli.pc = "input"
    /\ Cardinality(db.conversations) < MaxStored
    /\ \E msg \in RememberThis, now \in Timestamps :
          LET out == remember(db, JD, msg, now)
          IN  /\ db' = IF cli.memory THEN out.db ELSE db
              /\ last' = IF cli.memory THEN Called("remember", out) ELSE last
              /\ UNCHANGED <<cli, procs>>

\* "forget that: ..." in the REPL.
ReplForgetThat ==
    /\ cli.pc = "input"
    /\ \E kw \in ForgetThat :
          LET out == forget_keyword(db, JD, kw)
          IN  /\ db' = IF cli.memory THEN out.db ELSE db
              /\ last' = IF cli.memory THEN Called("forget_keyword", out) ELSE last
              /\ UNCHANGED <<cli, procs>>

\* What follows ":memsearch " and ":forget ".
MemSearchArgs == {<<"a">>}

ForgetArgs == {<<"1">>, <<"x">>}

\* int(s) raises ValueError unless s is a decimal numeral.
IsInt(s) == s # <<>> /\ \A i \in 1..Len(s) : \E n \in 1..10 : Digits[n] = s[i]

RECURSIVE Int_(_)
Int_(s) ==
    IF s = <<>> THEN 0
    ELSE 10 * Int_(SubSeq(s, 1, Len(s) - 1))
            + (CHOOSE n \in 0..9 : Digits[n + 1] = s[Len(s)])

\* ":mem" in the REPL: get_recent, with no handler around it.
ReplMem ==
    /\ cli.pc = "input"
    /\ LET out == get_recent(db, JD, cli.args.mem_inject, FALSE, None)
       IN  /\ last' = IF cli.memory
                      THEN [op |-> "get_recent", ret |-> Len(out.rows), err |-> out.err]
                      ELSE last
           /\ cli' = IF cli.memory /\ out.err # ""
                     THEN [cli EXCEPT !.pc = "terminated"] ELSE cli
    /\ UNCHANGED <<db, procs>>

\* ":memsearch <q>" in the REPL: search, with no handler around it.
ReplMemSearch ==
    /\ cli.pc = "input"
    /\ \E q \in MemSearchArgs :
          LET out == search(db, JD, q, 20, FALSE, None)
          IN  /\ last' = IF cli.memory
                         THEN [op |-> "search", ret |-> Len(out.rows), err |-> out.err]
                         ELSE last
              /\ cli' = IF cli.memory /\ out.err # ""
                        THEN [cli EXCEPT !.pc = "terminated"] ELSE cli
    /\ UNCHANGED <<db, procs>>

\* ":forget <id>" in the REPL: int() and forget_id, inside one handler.
ReplForgetId ==
    /\ cli.pc = "input"
    /\ \E arg \in ForgetArgs :
          IF ~cli.memory THEN UNCHANGED <<db, last>>
          ELSE IF ~IsInt(arg)
          THEN /\ last' = [op |-> "forget_id", ret |-> 0,
                           err |-> "ValueError: invalid literal for int()"]
               /\ db' = db
          ELSE LET out == forget_id(db, JD, Int_(arg))
               IN  db' = out.db /\ last' = Called("forget_id", out)
    /\ UNCHANGED <<cli, procs>>

\* "exit", "quit" or end of input in the REPL.
ReplExit ==
    /\ cli.pc = "input"
    /\ cli' = NotRunning
    /\ UNCHANGED <<db, last, procs>>

NextCli ==
    \/ Main
    \/ Ask
    \/ Answer
    \/ RequestFails
    \/ ReplRemember
    \/ ReplForgetThat
    \/ ReplMem
    \/ ReplMemSearch
    \/ ReplForgetId
    \/ ReplExit

SpecCli == Init /\ [][NextCli]_vars

\* ------------------------------------------------------ a storage fault

\* The database file is removed while jarvis runs: the next connection
\* creates an empty file, with no table in it.
FileRemoved ==
    /\ cli.pc = "input"
    /\ db # NoFile
    /\ db' = NoFile
    /\ last' = [op |-> "file removed", ret |-> 0, err |-> ""]
    /\ UNCHANGED <<cli, procs>>

NextFault ==
    \/ FileRemoved
    \/ NextCli

SpecFault == Init /\ [][NextFault]_vars

\* ------------------------------------------------------- a legacy database

\* Rows a legacy table may hold.
MaxLegacyRows == 2

\* Old table: conversations(user_id, message, timestamp, context), with or
\* without an integer primary key of its own.
LegacyCols == {"user_id", "message", "timestamp", "context"}

\* What the context column of a legacy row may hold.
LegacyContexts ==
    {<<"A","s","s","i","s","t","a","n","t">>, <<"R","e","m","e","m","b","e","r","e","d">>,
     <<"w","e","b">>, Null}

\* A legacy file: row i is of user rows[i][1] with context rows[i][2].
LegacyFile(hasId, rows) ==
    [cols |-> LegacyCols \cup (IF hasId THEN {"id"} ELSE {}),
     conversations |->
         {[c \in LegacyCols \cup {IF hasId THEN "id" ELSE "rowid"} |->
              CASE c \in {"id", "rowid"} -> i
                [] c = "user_id" -> rows[i][1]
                [] c = "message" -> <<"a", "b">>
                [] c = "timestamp" -> <<"t", "0">>
                [] c = "context" -> rows[i][2]] : i \in 1..Len(rows)},
     sqlite_sequence |-> IF hasId THEN Len(rows) ELSE 0,
     has_meta |-> FALSE, meta |-> {}]

LegacyFiles ==
    {LegacyFile(hasId, rows) :
        hasId \in BOOLEAN,
        rows \in UNION {[1..n -> Users \X LegacyContexts] : n \in 0..MaxLegacyRows}}

\* A file written by the old program; no process has opened it yet.
InitLegacy ==
    /\ db \in LegacyFiles
    /\ last = [op |-> "none", ret |-> 0, err |-> ""]
    /\ cli = NotRunning
    /\ procs = NoProcs

\* The constructor is run on the file, by a caller of its own or by jarvis.
NextLegacy ==
    \/ Reinit
    \/ NextCli

SpecLegacy == InitLegacy /\ [][NextLegacy]_vars

\* ------------------------------------------------------------ the migration

\* What the message column of a legacy row may hold.
LegacyMessages == {<<"a", "b">>, <<>>}

\* The contexts of the rows the migration is followed on.
MigrateContexts == LegacyContexts \cup {<<"N","o","t","e">>}

\* The layouts of the files the migration is followed on: the old table,
\* the old table with an integer primary key, and the old table to which
\* id, content and deleted were added by hand.
Layouts == {"old", "old_id", "mixed"}

LayoutCols(layout) ==
    LegacyCols \cup (CASE layout = "old" -> {}
                       [] layout = "old_id" -> {"id"}
                       [] layout = "mixed" -> {"id", "content", "deleted"})

\* A file in one of the layouts, with or without a meta table beside the
\* conversations table: row i holds message rows[i][1], context rows[i][2].
MigrateFile(layout, hasMeta, rows) ==
    [cols |-> LayoutCols(layout),
     conversations |->
         {[c \in LayoutCols(layout) \cup (IF layout = "old" THEN {"rowid"} ELSE {}) |->
              CASE c \in {"id", "rowid"} -> i
                [] c = "user_id" -> JD
                [] c = "message" -> rows[i][1]
                [] c = "timestamp" -> <<"t", "0">>
                [] c = "context" -> rows[i][2]
                [] c = "content" -> Null
                [] c = "deleted" -> 0] : i \in 1..Len(rows)},
     sqlite_sequence |-> IF layout = "old" THEN 0 ELSE Len(rows),
     has_meta |-> hasMeta, meta |-> {}]

MigrateFiles ==
    {MigrateFile(layout, hasMeta, rows) :
        layout \in Layouts, hasMeta \in BOOLEAN,
        rows \in UNION {[1..n -> LegacyMessages \X MigrateContexts] :
                            n \in 0..MaxLegacyRows}}

\* A file in one of the layouts, or no file yet.
InitMigrate ==
    /\ db \in MigrateFiles \cup {NoFile}
    /\ last = [op |-> "none", ret |-> 0, err |-> ""]
    /\ cli = NotRunning
    /\ procs = NoProcs

\* _attempt_migrate_legacy_schema is run on the file.
Migrate ==
    LET out == AttemptMigrateLegacySchema(db)
    IN  /\ db' = out.db
        /\ last' = [op |-> "_attempt_migrate_legacy_schema", ret |-> 0, err |-> out.err]
        /\ UNCHANGED <<cli, procs>>

\* The process dies inside the migration after n of its ALTER TABLE
\* statements: they are committed, the UPDATE statements, if any ran, are
\* not.
MigrateCrash ==
    /\ IsLegacy(db)
    /\ \E n \in 1..Len(AlterColumns(db.cols)) :
          /\ db' = Altered(db, n)
          /\ last' = [op |-> "crash", ret |-> n, err |-> ""]
          /\ UNCHANGED <<cli, procs>>

NextMigrate ==
    \/ Migrate
    \/ MigrateCrash
    \/ Reinit

SpecMigrate == InitMigrate /\ [][NextMigrate]_vars

\* ---------------------------------------------- processes on one file

\* Records the shared file may hold.
MaxShared == 2

\* --mem-inject of the process that builds a memory block.
SharedInject == 2

\* The calls the processes make, as (name, user_id, arguments...).
WriteCalls ==
    {<<"store_message", JD, S_user, <<"a", "b">>, S_chat>>,
     <<"store_message", JD, S_user, <<"a", "b">>, S_remembered>>,
     <<"store_message", JD, S_user, <<" ">>, S_chat>>,
     <<"forget_keyword", JD, <<"a">>>>,
     <<"forget_id", JD, 1>>,
     <<"clear_user", JD>>}

ReadCalls == {<<"build_memory_block", JD, SharedInject>>}

\* The call on the file d.
Run(call, d, now) ==
    CASE call[1] = "store_message" ->
             store_message(d, call[2], call[3], call[4], call[5], now)
      [] call[1] = "forget_keyword" -> forget_keyword(d, call[2], call[3])
      [] call[1] = "forget_id" -> forget_id(d, call[2], call[3])
      [] call[1] = "clear_user" -> clear_user(d, call[2])

\* The call gets as far as self._connect(): store_message validates its
\* arguments first, forget_keyword returns 0 on a blank keyword.
Connects(call) ==
    CASE call[1] = "store_message" ->
             \A now \in Timestamps : Run(call, Construct(NoFile).db, now).err = ""
      [] call[1] = "forget_keyword" -> Strip(call[3]) # <<>>
      [] OTHER -> TRUE

\* Mutant: a statement never finds the file locked.
WriteLocked_Never(p) == FALSE

\* Another connection has run its INSERT or UPDATE and not committed yet:
\* it holds the write lock of the file.
WriteLocked(p) == \E q \in Procs \ {p} : procs[q].pc = "executed"

\* What build_memory_block would render from the file d as a whole.
BlockOf(call, d) == build_memory_rows(d, call[2], call[3], TRUE, TRUE)

\* The processes in a build_memory_block see the file change.
Seeing(ps, d) ==
    [q \in Procs |->
        IF ps[q].pc = "read_chat"
        THEN [ps[q] EXCEPT !.seen = @ \cup {BlockOf(ps[q].call, d)}]
        ELSE ps[q]]

\* A process enters a call. A call that does not get to the database
\* returns or raises at once.
Call(p) ==
    /\ procs[p].pc = "idle"
    /\ \E call \in WriteCalls \cup ReadCalls, now \in Timestamps :
          IF call \in WriteCalls /\ ~Connects(call)
          THEN /\ last' = Called(call[1], Run(call, db, now))
               /\ UNCHANGED <<db, procs>>
          ELSE /\ procs' = [procs EXCEPT ![p] = [Idle EXCEPT !.pc = "connected",
                                                             !.call = call]]
               /\ UNCHANGED <<db, last>>
    /\ UNCHANGED cli

\* conn.execute(INSERT ... / UPDATE ...): the statement runs on the file as
\* it is committed, under the write lock; what it wrote is not committed.
Execute(p) ==
    /\ procs[p].pc = "connected"
    /\ procs[p].call \in WriteCalls
    /\ ~WriteLocked(p)
    /\ procs[p].call[1] = "store_message" => Cardinality(db.conversations) < MaxShared
    /\ \E now \in Timestamps :
          procs' = [procs EXCEPT ![p].pc = "executed",
                                 ![p].out = Run(procs[p].call, db, now)]
    /\ UNCHANGED <<db, last, cli>>

\* conn.execute finds the file locked until its timeout has passed:
\* sqlite3.OperationalError, database is locked.
Busy(p) ==
    /\ procs[p].pc = "connected"
    /\ procs[p].call \in WriteCalls
    /\ WriteLocked(p)
    /\ procs' = [procs EXCEPT ![p] = Idle]
    /\ last' = [op |-> procs[p].call[1], ret |-> 0, err |-> "sqlite3.OperationalError"]
    /\ UNCHANGED <<db, cli>>

\* conn.commit() and the return of cur.lastrowid or cur.rowcount.
Commit(p) ==
    /\ procs[p].pc = "executed"
    /\ db' = procs[p].out.db
    /\ last' = Called(procs[p].call[1], procs[p].out)
    /\ procs' = Seeing([procs EXCEPT ![p] = Idle], procs[p].out.db)
    /\ UNCHANGED cli

\* The process is killed before conn.commit(): what its statement wrote is
\* rolled back.
Killed(p) ==
    /\ procs[p].pc = "executed"
    /\ procs' = [procs EXCEPT ![p] = Idle]
    /\ last' = [op |-> "killed", ret |-> 0, err |-> ""]
    /\ UNCHANGED <<db, cli>>

\* build_memory_block: memory.get_recent(mem_user, limit=mem_inject,
\* kind="chat"), in a connection of its own.
ReadChat(p) ==
    /\ procs[p].pc = "connected"
    /\ procs[p].call \in ReadCalls
    /\ procs' = [procs EXCEPT
                    ![p].pc = "read_chat",
                    ![p].rows = get_recent(db, procs[p].call[2], procs[p].call[3],
                                           FALSE, S_chat).rows,
                    ![p].seen = {BlockOf(procs[p].call, db)}]
    /\ UNCHANGED <<db, last, cli>>

\* build_memory_block: memory.get_recent(..., kind="remembered") in a second
\* connection, then the sort and the cut; rows becomes the rows it renders,
\* ret their number.
ReadRemembered(p) ==
    /\ procs[p].pc = "read_chat"
    /\ LET rem == get_recent(db, procs[p].call[2], procs[p].call[3],
                             FALSE, S_remembered).rows
           rendered == MergeStreams(procs[p].rows, rem, procs[p].call[3])
       IN  /\ last' = [op |-> "build_memory_block", ret |-> Len(rendered), err |-> ""]
           /\ procs' = [procs EXCEPT ![p].pc = "idle", ![p].rows = rendered]
    /\ UNCHANGED <<db, cli>>

NextShared ==
    \E p \in Procs :
        \/ Call(p)
        \/ Execute(p)
        \/ Busy(p)
        \/ Commit(p)
        \/ Killed(p)
        \/ ReadChat(p)
        \/ ReadRemembered(p)

SpecShared == Init /\ [][NextShared]_vars

\* ---------------------------------------------------------------- claims

\* The limits the reads are asked with.
Limits == {0, 1, MaxRows}

\* The elements of a sequence.
Range(seq) == {seq[i] : i \in 1..Len(seq)}

\* The rows of namespace u, deleted or not.
RowsOf(d, u) == {r \in d.conversations : r.user_id = u}

\* C1: whatever the store holds and whatever namespace A is asked for,
\* get_recent, search and build_memory_block give back only records whose
\* user_id is A, for every limit, include_deleted and kind.
C1_NamespaceIsolation ==
    [](\A A \in Namespaces, lim \in Limits :
        /\ \A incl \in BOOLEAN, k \in KindFilters :
              /\ \A m \in Range(get_recent(db, A, lim, incl, k).rows) : m.user_id = A
              /\ \A q \in {<<"_">>, <<" ","b"," ">>} :
                    \A m \in Range(search(db, A, q, lim, incl, k).rows) : m.user_id = A
        /\ \A chat \in BOOLEAN, rem \in BOOLEAN :
              \A m \in Range(build_memory_rows(db, A, lim, chat, rem)) : m.user_id = A)

\* Both namespaces hold live records and each of the three reads returns some
\* for JD.
C1_Witness ==
    /\ \A u \in Users : \E r \in RowsOf(db, u) : r.deleted = 0
    /\ get_recent(db, JD, MaxRows, FALSE, None).rows # <<>>
    /\ search(db, JD, <<"a">>, MaxRows, FALSE, None).rows # <<>>
    /\ build_memory_rows(db, JD, MaxRows, TRUE, TRUE) # <<>>

\* What store_message, remember, forget_keyword, forget_id and clear_user
\* give when called for namespace A.
CallsFor(d, A) ==
    {store_message(d, A, c[1], c[3], c[2], now) : c \in StoreCalls, now \in Timestamps}
    \cup {remember(d, A, c, now) : c \in RememberCalls, now \in Timestamps}
    \cup {forget_keyword(d, A, kw) : kw \in ForgetCalls}
    \cup {forget_id(d, A, i) : i \in 0..(MaxRows + 1)}
    \cup {clear_user(d, A)}

\* C2: a mutation called for namespace A leaves every record of every other
\* namespace as it was, in all fields, and adds none to another namespace.
C2_MutationsScoped ==
    [](\A A \in Namespaces :
        \A out \in CallsFor(db, A) :
            /\ \A r \in db.conversations : r.user_id # A => r \in out.db.conversations
            /\ \A r \in out.db.conversations : r.user_id # A => r \in db.conversations)

\* A forget or clear has just soft-deleted records while another namespace
\* holds a live record.
C2_Witness ==
    /\ last.op \in {"forget_keyword", "forget_id", "clear_user"}
    /\ last.ret >= 1
    /\ \E r1 \in db.conversations, r2 \in db.conversations :
          r1.user_id # r2.user_id /\ r1.deleted = 1 /\ r2.deleted = 0

\* C3: in every step a record stays in the table and its deleted flag does
\* not go from 1 back to 0; and a soft-deleted record is among those
\* get_recent(include_deleted=True) returns for its namespace.
C3_SoftDeleteMonotone ==
    /\ [][\A r \in db.conversations :
             \E r2 \in db'.conversations : r2.id = r.id /\ r2.deleted >= r.deleted]_vars
    /\ [](\A r \in db.conversations :
             r.deleted = 1 =>
                MemoryRow(r) \in Range(get_recent(db, r.user_id,
                                                  Cardinality(db.conversations),
                                                  TRUE, None).rows))

\* VACUUM has just run on a store holding a soft-deleted record.
C3_Witness ==
    /\ last.op = "vacuum"
    /\ \E r \in db.conversations : r.deleted = 1

\* C4: in every step each record keeps its user_id, role, content, kind and
\* timestamp.
C4_FieldsImmutable ==
    [][\A r \in db.conversations :
          \E r2 \in db'.conversations :
              /\ r2.id = r.id
              /\ r2.user_id = r.user_id
              /\ r2.role = r.role
              /\ r2.content = r.content
              /\ r2.kind = r.kind
              /\ r2.timestamp = r.timestamp]_vars

\* The store was initialized again on a file holding a soft-deleted record
\* and a live one.
C4_Witness ==
    /\ last.op = "__init__"
    /\ \E r1 \in db.conversations, r2 \in db.conversations :
          r1.deleted = 1 /\ r2.deleted = 0

\* C5: a successful store returns an id above every id in the table before
\* it, the new record carries it, and no two records share an id.
C5_IdsIncrease ==
    /\ [][(last'.op \in {"store_message", "remember"} /\ last'.err = "") =>
              /\ \A r \in db.conversations : last'.ret > r.id
              /\ \E r \in db'.conversations \ db.conversations : r.id = last'.ret]_vars
    /\ [](\A r1 \in db.conversations, r2 \in db.conversations :
              r1.id = r2.id => r1 = r2)

\* A store succeeded after an earlier record was soft-deleted.
C5_Witness ==
    /\ last.op = "store_message"
    /\ last.err = ""
    /\ last.ret >= 2
    /\ \E r \in db.conversations : r.deleted = 1

\* What store_message is called with: <<user_id, role, content, kind, now>>.
StoreArgs == Users \X RoleInputs \X ContentInputs \X KindInputs \X Timestamps

\* store_message applied to a tuple of StoreArgs.
Stored(d, a) == store_message(d, a[1], a[2], a[3], a[4], a[5])

\* C6: for a valid role, kind and content, store_message followed at once by
\* get_recent(user, limit=1) gives exactly one record: the one just stored,
\* with the id returned, the role and kind given (chat when no kind is
\* given), the content without its surrounding blanks, and deleted = 0.
C6_StoreThenRecent ==
    [](\A a \in StoreArgs :
        (a[2] \in Roles /\ a[4] \in Kinds \cup {None} /\ ~(\A i \in DOMAIN a[3] : IsSpace(a[3][i])))
        => LET out == Stored(db, a)
               got == get_recent(out.db, a[1], 1, FALSE, None).rows
           IN  /\ out.err = ""
               /\ Len(got) = 1
               /\ got[1].id = out.ret
               /\ got[1].user_id = a[1]
               /\ got[1].role = a[2]
               /\ got[1].kind = (IF a[4] = None THEN S_chat ELSE a[4])
               /\ got[1].deleted = 0
               /\ got[1].timestamp = a[5]
               /\ \E i \in 1..Len(a[3]), j \in 1..Len(a[3]) :
                     /\ got[1].content = SubSeq(a[3], i, j)
                     /\ ~IsSpace(a[3][i]) /\ ~IsSpace(a[3][j])
                     /\ \A n \in 1..Len(a[3]) : (n < i \/ n > j) => IsSpace(a[3][n]))

\* A store has just succeeded in a namespace that held an older live record,
\* and get_recent(limit=1) gives the new one.
C6_Witness ==
    /\ last.op = "store_message"
    /\ last.err = ""
    /\ \E u \in Users :
          /\ \E r \in RowsOf(db, u) : r.id < last.ret /\ r.deleted = 0
          /\ get_recent(db, u, 1, FALSE, None).rows # <<>>
          /\ get_recent(db, u, 1, FALSE, None).rows[1].id = last.ret

ValidationErrors ==
    {"ValueError: role must be one of: user, assistant, system",
     "ValueError: kind must be one of: chat, remembered",
     "ValueError: content cannot be empty"}

\* C7 as stated: a store whose role is not one of user, assistant, system,
\* or whose kind is given and not one of chat, remembered, fails with a
\* validation error and leaves the store as it was.
C7_RejectsOutsideSets ==
    \A a \in StoreArgs :
        (a[2] \notin Roles \/ a[4] \notin Kinds \cup {None})
        => /\ Stored(db, a).err \in ValidationErrors
           /\ Stored(db, a).db = db

\* C7, amended: a store whose role, without surrounding blanks and in lower
\* case, is not one of user, assistant, system, or whose kind (chat when
\* none is given), taken the same way, is not one of chat, remembered,
\* fails with the validation error of that field and leaves the whole store
\* as it was.
C7_RejectsAfterNormalizing ==
    [](\A a \in StoreArgs :
        LET badRole == Lower(Strip(a[2])) \notin Roles
            badKind == a[4] # None /\ Lower(Strip(a[4])) \notin Kinds
            out == Stored(db, a)
        IN  /\ badRole => out.err = "ValueError: role must be one of: user, assistant, system"
            /\ (~badRole /\ badKind)
                  => out.err = "ValueError: kind must be one of: chat, remembered"
            /\ (badRole \/ badKind) => out.db = db)

\* A store has just been refused for its kind on a store that holds records.
C7_Witness ==
    /\ last.op = "store_message"
    /\ last.err = "ValueError: kind must be one of: chat, remembered"
    /\ db.conversations # {}

\* Every character of the text is white space (the empty text too).
Blank(s) == \A i \in 1..Len(s) : IsSpace(s[i])

\* C8: store_message and remember with an empty or all-blank content fail
\* with a validation error and leave the store as it was, for every role and
\* kind.
C8_BlankContentRejected ==
    [](/\ \A a \in StoreArgs :
             Blank(a[3]) => /\ Stored(db, a).err \in ValidationErrors
                            /\ Stored(db, a).db = db
       /\ \A u \in Users, c \in ContentInputs, now \in Timestamps :
             Blank(c) => /\ remember(db, u, c, now).err = "ValueError: content cannot be empty"
                         /\ remember(db, u, c, now).db = db)

\* A store has just been refused for its blank content on a store that holds
\* records.
C8_Witness ==
    /\ last.op \in {"store_message", "remember"}
    /\ last.err = "ValueError: content cannot be empty"
    /\ db.conversations # {}

\* The ids of a sequence of records, in order.
Ids(rows) == [i \in 1..Len(rows) |-> rows[i].id]

\* C9: get_recent returns the min(max(1, limit), m) records of highest id
\* among the m records of the user that pass the filters, by strictly
\* descending id; with ids 1..5 live, limit=3 gives ids 5, 4, 3.
C9_RecentNewestFirst ==
    [](/\ \A lim \in (-1)..(MaxTurns + 1), incl \in BOOLEAN, k \in Kinds \cup {None} :
            \A got \in {get_recent(db, JD, lim, incl, k).rows} :
            \A M \in {{r \in db.conversations :
                        /\ r.user_id = JD
                        /\ (incl \/ r.deleted = 0)
                        /\ (k = None \/ r.kind = k)}} :
                /\ Len(got) = (IF lim < 1
                               THEN (IF M = {} THEN 0 ELSE 1)
                               ELSE (IF lim < Cardinality(M) THEN lim ELSE Cardinality(M)))
                /\ \A i \in 1..Len(got), j \in 1..Len(got) : i < j => got[i].id > got[j].id
                /\ \A i \in 1..Len(got) : \E r \in M : MemoryRow(r) = got[i]
                /\ \A r \in M :
                      r.id \in Range(Ids(got)) \/ \A i \in 1..Len(got) : r.id < got[i].id
       /\ {r.id : r \in {x \in db.conversations : x.deleted = 0}} = 1..5
             => Ids(get_recent(db, JD, 3, FALSE, None).rows) = <<5, 4, 3>>)

\* Ids 1..5 are live for JD, a sixth record is soft-deleted, and
\* get_recent(limit=3) gives 5, 4, 3.
C9_Witness ==
    /\ {r.id : r \in {x \in db.conversations : x.deleted = 0}} = 1..5
    /\ \E r \in db.conversations : r.deleted = 1
    /\ Ids(get_recent(db, JD, 3, FALSE, None).rows) = <<5, 4, 3>>
    /\ Ids(get_recent(db, JD, 3, TRUE, None).rows) = <<6, 5, 4>>

\* s holds q as a run of consecutive characters, ASCII case aside.
RECURSIVE ContainsNoCase(_, _)
ContainsNoCase(s, q) ==
    \/ (Len(q) <= Len(s) /\ Lower(SubSeq(s, 1, Len(q))) = Lower(q))
    \/ (s # <<>> /\ ContainsNoCase(Tail(s), q))

\* C10: every record search(user, q) returns has a content that holds q
\* (taken without its surrounding blanks, and whatever the case) as a
\* substring, for every non-blank q, those holding % or _ too.
C10_SearchReturnsSubstringMatches ==
    \A u \in Users, q \in Patterns :
        ~Blank(q) =>
            \A m \in Range(search(db, u, q, MaxRows, TRUE, None).rows) :
                ContainsNoCase(m.content, Strip(q))

\* C11: search returns its records by strictly descending id, at most
\* max(1, limit) of them, and none with deleted = 1 unless include_deleted
\* is true.
C11_SearchNewestFirstLive ==
    [](\A q \in {<<"a">>, <<"_">>}, lim \in {0, 2, MaxTurns},
          incl \in BOOLEAN, k \in {None, S_remembered} :
          LET got == search(db, JD, q, lim, incl, k).rows
          IN  /\ \A i \in 1..Len(got), j \in 1..Len(got) : i < j => got[i].id > got[j].id
              /\ Len(got) <= (IF lim < 1 THEN 1 ELSE lim)
              /\ ~incl => \A i \in 1..Len(got) : got[i].deleted = 0)

\* Ids 1..3 are live and id 4 is soft-deleted: search with limit 2 gives
\* 3, 2 without the deleted records and 4, 3 with them.
C11_Witness ==
    /\ {r.id : r \in {x \in db.conversations : x.deleted = 0}} = 1..3
    /\ {r.id : r \in {x \in db.conversations : x.deleted = 1}} = {4}
    /\ Ids(search(db, JD, <<"a">>, 2, FALSE, None).rows) = <<3, 2>>
    /\ Ids(search(db, JD, <<"a">>, 2, TRUE, None).rows) = <<4, 3>>
    /\ Len(search(db, JD, <<"a">>, 0, FALSE, None).rows) = 1

\* s holds q as a run of consecutive characters, case and all; the empty
\* text is held by every text.
RECURSIVE Contains(_, _)
Contains(s, q) ==
    \/ (Len(q) <= Len(s) /\ SubSeq(s, 1, Len(q)) = q)
    \/ (s # <<>> /\ Contains(Tail(s), q))

\* The ids get_recent gives for the user when the limit is the number of the
\* user's records.
RecentIds(d, u, include_deleted) ==
    Range(Ids(get_recent(d, u, Cardinality(RowsOf(d, u)), include_deleted, None).rows))

\* C12 as stated: for every keyword kw, a live record of the user whose
\* content holds kw as a substring is, after forget_keyword(user, kw), absent
\* from get_recent(include_deleted=False) and present in
\* get_recent(include_deleted=True).
C12_ForgottenHiddenNotGone ==
    \A u \in Users, kw \in Patterns :
        \A r \in RowsOf(db, u) :
            (r.deleted = 0 /\ Contains(r.content, kw))
            => /\ r.id \notin RecentIds(forget_keyword(db, u, kw).db, u, FALSE)
               /\ r.id \in RecentIds(forget_keyword(db, u, kw).db, u, TRUE)

\* C12, amended: the same for every keyword that is not blank (neither
\* empty nor white space only).
C12_ForgottenHiddenNotGoneNonBlank ==
    [](\A u \in Users, kw \in Patterns :
        \A r \in RowsOf(db, u) :
            (r.deleted = 0 /\ ~Blank(kw) /\ Contains(r.content, kw))
            => /\ r.id \notin RecentIds(forget_keyword(db, u, kw).db, u, FALSE)
               /\ r.id \in RecentIds(forget_keyword(db, u, kw).db, u, TRUE))

\* forget_keyword has just soft-deleted a record of a user who keeps a live
\* one: get_recent hides the first and shows the second, and with
\* include_deleted shows both.
C12_Witness ==
    /\ last.op = "forget_keyword"
    /\ last.ret = 1
    /\ \E u \in Users :
          \E r1 \in RowsOf(db, u), r2 \in RowsOf(db, u) :
              /\ r1.deleted = 1 /\ r2.deleted = 0
              /\ RecentIds(db, u, FALSE) = {r2.id}
              /\ RecentIds(db, u, TRUE) = {r1.id, r2.id}

\* C13: forget_keyword(user, kw) leaves every record whose content does not
\* hold kw (taken without its surrounding blanks, and whatever the case) as
\* a substring as it was, for every non-blank kw, those holding % or _ too,
\* and returns the number of records whose deleted flag it took from 0 to 1.
C13_ForgetOnlySubstringMatches ==
    \A u \in Users, kw \in Patterns :
        ~Blank(kw) =>
            LET out == forget_keyword(db, u, kw)
            IN  /\ \A r \in db.conversations :
                      ~ContainsNoCase(r.content, Strip(kw)) => r \in out.db.conversations
                /\ out.ret = Cardinality({r \in db.conversations :
                                 /\ r.deleted = 0
                                 /\ \E r2 \in out.db.conversations :
                                       r2.id = r.id /\ r2.deleted = 1})

\* Keywords and queries that are empty or white space only.
BlankPatterns == {None, <<" ">>, <<" ", "\t">>, <<"\n">>}

\* C14: for a keyword or query that is empty or white space only, in every
\* store, forget_keyword returns 0 and leaves every record as it was, and
\* search returns the empty list, whatever the limit, include_deleted and
\* kind.
C14_BlankMatchesNothing ==
    [](\A u \in Users, p \in BlankPatterns :
          /\ forget_keyword(db, u, p) = Returned(db, 0)
          /\ \A lim \in Limits, incl \in BOOLEAN, k \in KindFilters :
                search(db, u, p, lim, incl, k) = [rows |-> <<>>, err |-> ""])

\* forget_keyword has just returned 0 on a store where JD has live records
\* that the pattern "%%" would all match.
C14_Witness ==
    /\ last.op = "forget_keyword"
    /\ last.ret = 0
    /\ \E r \in RowsOf(db, JD) : r.deleted = 0
    /\ \A r \in RowsOf(db, JD) : Like(r.content, LikePattern(<<>>))
    /\ search(db, JD, <<" ">>, MaxRows, TRUE, None).rows = <<>>
    /\ search(db, JD, <<"%">>, MaxRows, TRUE, None).rows # <<>>

\* C15: forget_id(user, id) returns 1 and sets deleted = 1 on that record
\* alone when the record exists, is the user's and is live; otherwise (no
\* such id, a record of another namespace, a record already deleted) it
\* returns 0 and changes nothing; a second forget_id of the same id
\* returns 0.
C15_ForgetIdExactlyOne ==
    [](\A u \in Namespaces, i \in 0..(MaxRows + 1) :
          LET out == forget_id(db, u, i)
              hit == {r \in db.conversations : r.id = i /\ r.user_id = u /\ r.deleted = 0}
          IN  /\ out.err = ""
              /\ hit # {} =>
                    /\ out.ret = 1
                    /\ out.db = [db EXCEPT !.conversations =
                                    (@ \ hit) \cup {[r EXCEPT !.deleted = 1] : r \in hit}]
                    /\ forget_id(out.db, u, i) = Returned(out.db, 0)
              /\ hit = {} => out = Returned(db, 0))

\* forget_id has just soft-deleted a record of one namespace while another
\* namespace holds a live record: forgetting either id again for the first
\* namespace returns 0.
C15_Witness ==
    /\ last.op = "forget_id"
    /\ last.ret = 1
    /\ \E r1 \in db.conversations, r2 \in db.conversations :
          /\ r1.user_id # r2.user_id
          /\ r1.deleted = 1 /\ r2.deleted = 0
          /\ forget_id(db, r1.user_id, r1.id).ret = 0
          /\ forget_id(db, r1.user_id, r2.id).ret = 0
          /\ forget_id(db, r2.user_id, r2.id).ret = 1

\* A record returned by a read, its deleted flag aside.
Undeleted(m) == [m EXCEPT !.deleted = 0]

\* C16: clear_user(user) soft-deletes every live record of the user and
\* returns their number; after it get_recent(include_deleted=False) is
\* empty, get_recent(include_deleted=True) returns the same records as
\* before, and a second clear_user returns 0.
C16_ClearUserHidesAll ==
    [](\A u \in Namespaces :
          LET out == clear_user(db, u)
              live == {r \in RowsOf(db, u) : r.deleted = 0}
              n == Cardinality(RowsOf(db, u))
          IN  /\ out.err = ""
              /\ out.ret = Cardinality(live)
              /\ \A r \in live : [r EXCEPT !.deleted = 1] \in out.db.conversations
              /\ \A lim \in Limits : get_recent(out.db, u, lim, FALSE, None).rows = <<>>
              /\ {Undeleted(m) : m \in Range(get_recent(out.db, u, n, TRUE, None).rows)}
                    = {Undeleted(m) : m \in Range(get_recent(db, u, n, TRUE, None).rows)}
              /\ clear_user(out.db, u) = Returned(out.db, 0))

\* clear_user has just soft-deleted the records of a user, a chat record
\* and a remembered one: the default read is empty, the read with
\* include_deleted gives both.
C16_Witness ==
    /\ last.op = "clear_user"
    /\ last.ret = 2
    /\ \E u \in Users :
          /\ {r.kind : r \in RowsOf(db, u)} = Kinds
          /\ get_recent(db, u, MaxRows, FALSE, None).rows = <<>>
          /\ Len(get_recent(db, u, MaxRows, TRUE, None).rows) = 2

\* The keywords the forget-then-search pair is asked with: the patterns, and
\* one that ends in a blank.
Keywords == Patterns \cup {<<"b", " ">>}

\* search(user, kw) as the caller writes it: limit=20, include_deleted=False,
\* no kind.
SearchDefault(d, u, kw) == search(d, u, kw, 20, FALSE, None)

\* C17 as stated: for every keyword kw and every store, search(user, kw)
\* right after forget_keyword(user, kw) is empty, and a record just stored
\* by remember(user, c), with kw a substring of c, is returned by
\* search(user, kw).
C17_ForgetAndSearchAgree ==
    \A u \in Users, kw \in Keywords :
        /\ SearchDefault(forget_keyword(db, u, kw).db, u, kw).rows = <<>>
        /\ \A c \in ContentInputs, now \in Timestamps :
              (Contains(c, kw) /\ remember(db, u, c, now).err = "")
              => remember(db, u, c, now).ret
                    \in Range(Ids(SearchDefault(remember(db, u, c, now).db, u, kw).rows))

\* C17, amended: the first part for every keyword; the second part for every
\* keyword that is not blank.
C17_ForgetAndSearchAgreeNonBlank ==
    [](\A u \in Users, kw \in Keywords :
        /\ SearchDefault(forget_keyword(db, u, kw).db, u, kw).rows = <<>>
        /\ \A c \in ContentInputs, now \in Timestamps :
              (~Blank(kw) /\ Contains(c, kw) /\ remember(db, u, c, now).err = "")
              => remember(db, u, c, now).ret
                    \in Range(Ids(SearchDefault(remember(db, u, c, now).db, u, kw).rows)))

\* remember has just stored a record that search finds by a keyword, next to
\* an older record the keyword matches too; after forget_keyword with that
\* keyword the same search is empty, while the records are still there.
C17_Witness ==
    /\ last.op = "remember"
    /\ last.err = ""
    /\ \E u \in Users :
          /\ Len(SearchDefault(db, u, <<"b", " ">>).rows) = 2
          /\ SearchDefault(db, u, <<"b", " ">>).rows[1].id = last.ret
          /\ forget_keyword(db, u, <<"b", " ">>).ret = 2
          /\ SearchDefault(forget_keyword(db, u, <<"b", " ">>).db, u, <<"b", " ">>).rows = <<>>

\* The lines of a text: the runs between its line breaks.
RECURSIVE SplitLines(_)
SplitLines(t) ==
    IF \A i \in 1..Len(t) : t[i] # "\n" THEN <<t>>
    ELSE LET i == CHOOSE j \in 1..Len(t) :
                      t[j] = "\n" /\ \A h \in 1..(j - 1) : t[h] # "\n"
         IN  <<SubSeq(t, 1, i - 1)>> \o SplitLines(SubSeq(t, i + 1, Len(t)))

\* How many lines a text has; the empty text has none.
LineCount(t) == IF t = <<>> THEN 0 ELSE Len(SplitLines(t))

\* The n records of highest id of a set.
Newest(S, n) == {r \in S : Cardinality({x \in S : x.id > r.id}) < n}

\* The candidates build_memory_block fetches for JD: the n newest live chat
\* records and the n newest live remembered records.
Candidates(n) ==
    Newest({r \in RowsOf(db, JD) : r.deleted = 0 /\ r.kind = S_chat}, n)
    \cup Newest({r \in RowsOf(db, JD) : r.deleted = 0 /\ r.kind = S_remembered}, n)

\* The block sizes asked for.
InjectCounts == {-1, 0, 1, 4}

\* Ids 1..6 are live, the odd ones chat and the even ones remembered.
Interleaved ==
    /\ {r.id : r \in db.conversations} = 1..6
    /\ \A r \in db.conversations :
          r.deleted = 0 /\ r.kind = (IF r.id % 2 = 1 THEN S_chat ELSE S_remembered)

LineKind(line) ==
    LET open == CHOOSE i \in 1..Len(line) :
                    line[i] = "(" /\ \A h \in 1..(i - 1) : line[h] # "("
        close == CHOOSE j \in (open + 1)..Len(line) :
                     line[j] = ")" /\ \A h \in (open + 1)..(j - 1) : line[h] # ")"
    IN  SubSeq(line, open + 1, close - 1)

\* The lines of a memory block that render records: all but its header.
RecordLines(block) ==
    IF block = <<>> THEN {} ELSE {SplitLines(block)[i] : i \in 2..Len(SplitLines(block))}

\* C19: with --mem-remembered-only, the memory block of the prompt sent to
\* the model renders records of kind remembered only, never one of kind
\* chat, in the REPL and in one-shot mode.
C19_RememberedOnlyPrompt ==
    (cli.pc = "waiting" /\ cli.args.mem_remembered_only)
    => \A line \in RecordLines(cli.prompt) : LineKind(line) = S_remembered

\* C20: the constructor run on a file whose conversations table has the
\* legacy layout raises no error, and after it store_message and get_recent
\* succeed on the file.
C20_LegacyFileConstructs ==
    last.op = "__init__"
    => /\ last.err = ""
       /\ \A now \in Timestamps :
             store_message(db, JD, S_user, <<"a", "b">>, None, now).err = ""
       /\ get_recent(db, JD, 1, FALSE, None).err = ""

\* C21: when the legacy migration has run on a table in the old layout,
\* every legacy row is still there, and has content = message, deleted = 0,
\* role = the lower-cased context when that is user, assistant or system and
\* user otherwise, kind = remembered when the lower-cased context is
\* remembered, memory or note and chat otherwise.
C21_MigrationMapsLegacyRows ==
    [][(/\ last'.op \in {"_attempt_migrate_legacy_schema", "__init__"}
        /\ last'.err = ""
        /\ IsLegacy(db))
       => /\ Cardinality(db'.conversations) = Cardinality(db.conversations)
          /\ \A r \in db.conversations :
                \E r2 \in db'.conversations :
                    LET context == IF r.context = Null THEN <<>> ELSE Lower(r.context)
                    IN  /\ RowId(r2) = RowId(r)
                        /\ r2.user_id = r.user_id
                        /\ r2.message = r.message
                        /\ r2.content = r.message
                        /\ r2.deleted = 0
                        /\ r2.role = (IF context \in {S_user, S_assistant, S_system}
                                      THEN context ELSE S_user)
                        /\ r2.kind = (IF context \in {S_remembered, <<"m","e","m","o","r","y">>,
                                                      <<"n","o","t","e">>}
                                      THEN S_remembered ELSE S_chat)]_vars

\* The migration has just run without error on a table in the old layout:
\* its row of context "Remembered" is of role user and kind remembered, its
\* row of context "Assistant" of role assistant and kind chat.
C21_Witness ==
    /\ last.op = "_attempt_migrate_legacy_schema"
    /\ last.err = ""
    /\ "rowid" \in UNION {DOMAIN r : r \in db.conversations}
    /\ \E r1 \in db.conversations, r2 \in db.conversations :
          /\ r1.context = <<"R","e","m","e","m","b","e","r","e","d">>
          /\ r1.role = S_user /\ r1.kind = S_remembered
          /\ r1.content = <<"a", "b">> /\ r1.deleted = 0
          /\ r2.context = <<"A","s","s","i","s","t","a","n","t">>
          /\ r2.role = S_assistant /\ r2.kind = S_chat /\ r2.deleted = 0

\* Every row of the table has its content back-filled from message, a role
\* and a kind.
Finished(d) ==
    \A r \in d.conversations :
        /\ {"content", "role", "kind"} \subseteq DOMAIN r
        /\ r.content = r.message /\ r.role \in Roles /\ r.kind \in Kinds

\* C22: after a crash inside the migration, once at least one column was
\* added, a later initialization of the same file that completes (the
\* constructor, or its migration step) has finished the migration: every
\* legacy row has its content back-filled and its role and kind derived.
C22_InterruptedMigrationFinishes ==
    last.op = "crash"
    => \A out \in {Construct(db), AttemptMigrateLegacySchema(db)} :
           out.err = "" => Finished(out.db)

\* The store is in the current schema: the conversations table has the
\* columns _init_database creates, and the meta table holds schema_version.
InCurrentSchema(d) ==
    /\ CurrentCols \subseteq d.cols
    /\ d.has_meta
    /\ \E m \in d.meta : m.key = "schema_version"

\* C23: the constructor steps are idempotent: on a store in the current
\* schema they change nothing and raise nothing, and on any store a second
\* and a third run in a row leave the records, the columns and the meta
\* table as the first run left them, with the outcome of the first run.
C23_InitIdempotent ==
    [](LET once == Construct(db)
           twice == Construct(once.db)
           thrice == Construct(twice.db)
       IN  /\ InCurrentSchema(db) => once = [db |-> db, err |-> ""]
           /\ twice.db = once.db /\ twice.err = once.err
           /\ thrice.db = once.db /\ thrice.err = once.err)

\* The constructor has just migrated a table that held legacy rows, and a
\* further run of it on the migrated store changes nothing.
C23_Witness ==
    /\ last.op = "__init__" /\ last.err = ""
    /\ InCurrentSchema(db)
    /\ \E r \in db.conversations :
          "message" \in DOMAIN r /\ r.content = r.message /\ r.kind = S_remembered
    /\ Construct(db) = [db |-> db, err |-> ""]

\* A process has committed its statement in this step.
Commits(p) ==
    procs[p].pc = "executed" /\ procs'[p].pc = "idle" /\ last'.op # "killed"

\* C24: with two processes interleaving store_message, forget_keyword,
\* forget_id and clear_user on one file, each step changes the file by
\* exactly one whole call or not at all: no row is lost or changed but for
\* its deleted flag; a store_message that returns an id has added exactly
\* one row with that id, an id no row carried before, holding the user,
\* role, content and kind of the call and deleted = 0; a forget or clear
\* that commits has soft-deleted every row its WHERE clause selects in the
\* file as it was then, and no other.
C24_CallsAtomic ==
    [][/\ \A r \in db.conversations :
             r \in db'.conversations \/ [r EXCEPT !.deleted = 1] \in db'.conversations
       /\ db' # db => \E p \in Procs : Commits(p)
       /\ \A p \in Procs :
             Commits(p) =>
                 LET call == procs[p].call
                     new == {r \in db'.conversations : r.id = last'.ret}
                 IN  IF call[1] = "store_message"
                     THEN /\ last'.err = ""
                          /\ \A r \in db.conversations : r.id < last'.ret
                          /\ Cardinality(new) = 1
                          /\ db'.conversations = db.conversations \cup new
                          /\ \A r \in new :
                                /\ r.user_id = call[2] /\ r.role = call[3]
                                /\ r.content = call[4] /\ r.kind = call[5]
                                /\ r.deleted = 0 /\ r.timestamp \in Timestamps
                     ELSE \E now \in Timestamps :
                             /\ db' = Run(call, db, now).db
                             /\ last'.ret = Run(call, db, now).ret]_vars

\* A store_message of one process has returned the id 2 while the other
\* process is inside a forget_keyword that has not run its UPDATE yet.
C24_Witness ==
    /\ last.op = "store_message" /\ last.err = "" /\ last.ret = 2
    /\ Cardinality(db.conversations) = 2
    /\ \E p \in Procs :
          procs[p].pc = "connected" /\ procs[p].call[1] = "forget_keyword"

\* The rows of d that db does not hold.
Added(d) == d.conversations \ db.conversations

\* C25: with memory enabled, in the REPL and in one-shot mode, a turn first
\* stores the user turn (role user, kind chat), then builds the memory
\* block from the store that holds it and sends the prompt with that block;
\* the store holds no reply of the turn while the request is out; when the
\* model has answered, the reply is stored (role assistant, kind chat) after
\* the user turn; when the request fails nothing is stored.
C25_TurnOrder ==
    [][cli.memory =>
         /\ (cli.pc \in {"input", "oneshot"} /\ cli'.pc = "waiting") =>
               /\ Cardinality(Added(db')) = 1
               /\ \A r \in Added(db') :
                     /\ r.user_id = JD /\ r.role = S_user /\ r.kind = S_chat
                     /\ r.content \in UserLines /\ r.deleted = 0
                     /\ \A x \in db.conversations : x.id < r.id
               /\ cli'.prompt = build_memory_block(db', JD, cli.args.mem_inject, TRUE, TRUE)
               /\ \E line \in RecordLines(cli'.prompt) :
                     line = <<"-"," ","U","S","E","R"," ","(","c","h","a","t",")",":"," ","h","i">>
         /\ (cli.pc = "waiting" /\ cli'.pc # "waiting") =>
               /\ cli.prompt = build_memory_block(db, JD, cli.args.mem_inject, TRUE, TRUE)
               /\ \E u \in db.conversations :
                     /\ u.role = S_user /\ u.kind = S_chat
                     /\ \A x \in db.conversations : x.id <= u.id
               /\ \/ db' = db /\ last' = last
                  \/ /\ Cardinality(Added(db')) = 1
                     /\ \A r \in Added(db') :
                           /\ r.user_id = JD /\ r.role = S_assistant /\ r.kind = S_chat
                           /\ r.content \in Answers /\ r.deleted = 0
                           /\ \A x \in db.conversations : x.id < r.id]_vars

\* A REPL with memory has finished a turn: the user turn and, after it, the
\* reply are stored, and the prompt that was sent rendered the user turn.
C25_Witness ==
    /\ cli.pc = "input" /\ cli.memory
    /\ last.op = "store_message" /\ last.err = ""
    /\ cli.prompt # <<>>
    /\ \E u \in db.conversations, a \in db.conversations :
          /\ u.role = S_user /\ u.content = <<"h", "i">>
          /\ a.role = S_assistant /\ a.content = <<"o", "k">>
          /\ a.id = u.id + 1 /\ a.id = last.ret

\* C26: in the interactive loop no error of a memory operation ends the
\* process: after a chat line, "remember this:", "forget that:", ":mem",
\* ":memsearch" or ":forget" the REPL reads its next line.
C26_ReplSurvivesMemoryErrors ==
    ~(cli.args.chat /\ cli.pc = "terminated")

\* The ids of the soft-deleted rows of d.
DeletedIds(d) == {r.id : r \in {x \in d.conversations : x.deleted = 1}}

\* The ids of the rows forget_keyword(u, k) hides when it runs on d.
HitIds(d, u, k) == DeletedIds(forget_keyword(d, u, k).db) \ DeletedIds(d)

\* The keywords of the two forget operations.
TwoKeywords == ForgetCalls \cup {<<"b">>, <<"a", "_">>}

\* C27: from any store, forget_keyword(u, k1) then forget_keyword(u, k2)
\* leaves the same store as the two in the opposite order, and the
\* soft-deleted records of it are those that were soft-deleted before and
\* every record k1 or k2 selects in the store they start from.
C27_ForgetKeywordsCommute ==
    [](\A u \in Users, k1 \in TwoKeywords, k2 \in TwoKeywords :
          k1 # k2 =>
              LET d12 == forget_keyword(forget_keyword(db, u, k1).db, u, k2).db
                  d21 == forget_keyword(forget_keyword(db, u, k2).db, u, k1).db
              IN  /\ d12 = d21
                  /\ DeletedIds(d12)
                        = DeletedIds(db) \cup HitIds(db, u, k1) \cup HitIds(db, u, k2))

\* forget_keyword has just hidden one record of JD, another record was
\* hidden before it, and a second keyword selects a record that is still
\* live.
C27_Witness ==
    /\ last.op = "forget_keyword" /\ last.ret = 1
    /\ \E k2 \in TwoKeywords : HitIds(db, JD, k2) # {}
    /\ \E r \in db.conversations : r.user_id = JD /\ r.deleted = 1

\* C28: once an initialization or a legacy migration has completed on the
\* file, every record of the store has a content that is not empty, a role
\* among user, assistant, system and a kind among chat, remembered.
C28_RecordsValid ==
    (last.op \in {"__init__", "_attempt_migrate_legacy_schema"} /\ last.err = "")
    => \A r \in db.conversations :
           /\ {"content", "role", "kind"} \subseteq DOMAIN r
           /\ r.content \notin {<<>>, Null}
           /\ r.role \in Roles
           /\ r.kind \in Kinds

\* list(reversed(rows))
Reversed(rows) == [i \in 1..Len(rows) |-> rows[Len(rows) + 1 - i]]

\* The values of N the block is built with.
BlockSizes == {1, 2, 3, 20}

\* C29: with both streams and N >= 1, build_memory_block renders exactly the
\* records get_recent(user, limit=N) returns without a kind filter, in
\* ascending id order: the header, then one line per record.
C29_BlockIsRecentReversed ==
    [](\A n \in BlockSizes :
          LET recent == Reversed(get_recent(db, JD, n, FALSE, None).rows)
          IN  /\ build_memory_rows(db, JD, n, TRUE, TRUE) = recent
              /\ build_memory_block(db, JD, n, TRUE, TRUE)
                    = (IF recent = <<>> THEN <<>>
                       ELSE JoinLines(<<MemoryHeader>>
                                \o [i \in 1..Len(recent) |-> MemoryLine(recent[i])])))

\* The store holds live chat records and live remembered records, more
\* than 2 of them in all and a soft-deleted one, and the block of N = 2
\* renders one record of each kind.
C29_Witness ==
    /\ Cardinality({r \in db.conversations : r.deleted = 0 /\ r.kind = S_chat}) >= 2
    /\ Cardinality({r \in db.conversations : r.deleted = 0 /\ r.kind = S_remembered}) >= 2
    /\ \E r \in db.conversations : r.deleted = 1
    /\ LET rows == build_memory_rows(db, JD, 2, TRUE, TRUE)
       IN  Len(rows) = 2 /\ rows[1].kind # rows[2].kind
           /\ rows = Reversed(get_recent(db, JD, 2, FALSE, None).rows)

\* C30: when another process writes between the two get_recent calls of one
\* build_memory_block call, the rows the call renders are still the N newest
\* live records of one state the file had during the call.
C30_BlockFromOneState ==
    \A p \in Procs :
        (procs[p].pc = "idle" /\ procs[p].call \in ReadCalls)
        => procs[p].rows \in procs[p].seen

====
